---- MODULE Spec2Model ----
(***************************************************************************)
(* A model of lib/utils/renderer.py: the Renderer session (scene graph,    *)
(* lights, camera / human / object node tracking) and the alpha-mask       *)
(* compositing shared by render, render_obj and pop_and_render.            *)
(*                                                                         *)
(* The scene graph and the offscreen rasterizer are pyrender objects.  The *)
(* scene graph is modelled by what Scene.add / Scene.remove_node do to the *)
(* node set and to main_camera_node; the rasterizer is an opaque service   *)
(* whose outcome (an RGBA raster, or an exception) is an input.            *)
(***************************************************************************)
EXTENDS Integers, Sequences, FiniteSets, TLC

VARIABLES
    resolution,        \* self.resolution, <<width, height>>
    wireframe,         \* self.wireframe
    whiteBackground,   \* self.whiteBackground, NoImage when the attribute was never set
    scene,             \* self.scene: the nodes of the scene graph
    main_camera_node,  \* self.scene.main_camera_node
    cam_node,          \* self.cam_node
    object_nodes,      \* self.object_nodes
    human_nodes,       \* self.human_nodes
    lastOp,            \* the public operation that ran last
    result,            \* "ok", or the exception that reached the caller
    image,             \* the image the last operation returned, NoImage if none
    rendered,          \* the nodes the last operation's rasterization pass saw
    renderCam,         \* the camera that pass rendered through
    flags,             \* the render flags that pass was given
    raster,            \* the RGBA raster that pass returned
    bg,                \* the background the last operation composited against
    imgOmitted,        \* the last operation was called without a background
    camPushes,         \* while regular: camera pushes since the previous pop_and_render call
    pushed,            \* while regular: nodes pushed by push_human / push_obj since that call
    regular,           \* history is push_* calls and pops after exactly one camera push
    allOk,             \* no call has failed so far
    point,             \* the point the last screenspace_to_worldspace returned
    calc               \* a function of the module applied to arguments, outside any run

vars == <<resolution, wireframe, whiteBackground, scene, main_camera_node,
          cam_node, object_nodes, human_nodes, lastOp, result, image, rendered,
          renderCam, flags, raster, bg, imgOmitted, camPushes, pushed, regular, allOk,
          point, calc>>

session == <<resolution, wireframe, whiteBackground>>
tracking == <<cam_node, object_nodes, human_nodes>>

----------------------------------------------------------------------------
(* Bounds and input sets *)

\* At most MaxNodes node objects are alive at a time (the three lights included).
MaxNodes == 6

\* Session resolutions <<width, height>> (the constructor's resolution argument).
Resolutions == {<<2, 1>>}

\* RGBA pixels a raster is made of: the clear pixel, alpha 0 over a nonzero
\* colour, and a mid-range alpha.
ClearPixel == <<0, 0, 0, 0>>
HiddenPixel == <<40, 50, 60, 0>>
SemiPixel == <<200, 100, 50, 128>>

\* RGB pixels of 8-bit background images.
WhitePixel == <<255, 255, 255>>
GreyPixel == <<7, 8, 9>>

\* Shapes <<rows, columns>> of the backgrounds callers pass besides the
\* session's own.
BgShapes == {<<1, 1>>, <<2, 3>>}

\* Weak-perspective camera parameters <<sx, sy, tx, ty>> callers pass: an
\* invertible one, one with scaleX = 0 and one with scaleY = 0.
CamInputs == {<<2, 1, 1, 3>>, <<0, 1, 1, 3>>, <<2, 0, 1, 3>>}

\* The camera parameters render and render_obj are called with.
ShotCamInputs == {<<2, 1, 1, 3>>}

\* The pixel coordinates passed to screenspace_to_worldspace.
ScreenCoords == {<<2, 0>>}

\* The arguments get_projection_matrix is checked on outside a session: the
\* constructor's scale, translation, znear and zfar, and the call's width and
\* height.
Scales == {0, 1, 2}
Translations == {-1, 3}
ZNears == {1, 5}
ZFars == {100, 1000}
Viewports == {<<2, 1>>, <<224, 224>>}

\* The arguments of render_obj and push_obj: angles in degrees, rotation axes
\* (the zero vector among them), per-axis scales, translations, and the
\* vertices of the loaded mesh.
Angles == {0, 90, 180}
Axes == {<<0, 0, 0>>, <<1, 0, 0>>, <<0, 1, 0>>, <<0, 0, 2>>}
ObjScales == {<<1, 1, 1>>, <<2, 1, 3>>}
ObjTranslations == {<<0, 0, 0>>, <<1, -2, 3>>}
MeshInputs == {<<<<1, 2, 3>>, <<-1, 0, 2>>>>}

\* The angle and axis arguments of render; <<>> is None.
HumanAngles == {0, 90}
HumanAxes == {<<>>, <<0, 1, 0>>}

----------------------------------------------------------------------------
(* Images: a sequence of rows, each a sequence of pixels (numpy's           *)
(* (rows, columns, channels) layout).                                       *)

NoImage == <<>>

Rows(im) == Len(im)
Cols(im) == IF Len(im) = 0 THEN 0 ELSE Len(im[1])
Shape(im) == <<Rows(im), Cols(im)>>

FullImage(h, w, p) == [i \in 1..h |-> [j \in 1..w |-> p]]

\* The shape of everything the renderer outputs: (viewport_height, viewport_width).
RasterShape(res) == <<res[2], res[1]>>

\* An image of h rows whose columns alternate between pixels p and q.
Striped(h, w, p, q) == [i \in 1..h |-> [j \in 1..w |-> IF j % 2 = 1 THEN p ELSE q]]

\* The backgrounds callers pass: one of the session's shape, and one of each
\* other shape.
Backgrounds(res) ==
    {Striped(res[2], res[1], GreyPixel, WhitePixel)}
        \cup {FullImage(s[1], s[2], GreyPixel) : s \in BgShapes \ {RasterShape(res)}}

----------------------------------------------------------------------------
(* Compositing: lines 129-131, 199-201 and 320-322 are the same three       *)
(* statements.  numpy broadcasts the two operands of the sum, and astype    *)
(* (np.uint8) keeps the low 8 bits.                                         *)

Max(a, b) == IF a >= b THEN a ELSE b

\* Two numpy axis lengths broadcast when they are equal or one of them is 1.
Compat(a, b) == a = b \/ a = 1 \/ b = 1

Broadcastable(rgb, img) ==
    /\ Compat(Rows(rgb), Rows(img))
    /\ Compat(Cols(rgb), Cols(img))

\* The index an axis of length n is read at for output index i.
Idx(i, n) == IF n = 1 THEN 1 ELSE i

\* A mask that takes every pixel as drawn.
ValidMask_AlwaysDrawn(p) == IF p[4] >= 0 THEN 1 ELSE 0

\* valid_mask = (rgb[:, :, -1] > 0), a boolean used as 0 / 1.
ValidMask(p) == IF p[4] > 0 THEN 1 ELSE 0

\* A proportional alpha blend of the raster over the background.
OutputPixel_Blend(p, b) ==
    [c \in 1..3 |-> ((p[c] * p[4] + (255 - p[4]) * b[c]) \div 255) % 256]

\* One pixel of rgb[:, :, :-1] * valid_mask + (1 - valid_mask) * img, as uint8.
OutputPixel(p, b) ==
    [c \in 1..3 |-> (p[c] * ValidMask(p) + (1 - ValidMask(p)) * b[c]) % 256]

Composite(rgb, img) ==
    [i \in 1..Max(Rows(rgb), Rows(img)) |->
        [j \in 1..Max(Cols(rgb), Cols(img)) |->
            OutputPixel(rgb[Idx(i, Rows(rgb))][Idx(j, Cols(rgb))],
                        img[Idx(i, Rows(img))][Idx(j, Cols(img))])]]

----------------------------------------------------------------------------
(* The scene graph (pyrender.Scene as the session uses it).  A value S is   *)
(* [nodes, main]: the node set and main_camera_node.                        *)

\* A node object: its identity, what it holds, and for a mesh node the name
\* it was added under, for a camera or light node the class of what it holds.
\* camera holds the <<sx, sy, tx, ty>> of a WeakPerspectiveCamera, NoParams
\* on every other node.
NoParams == <<>>
CamNode(id, tag, params) == [id |-> id, kind |-> "camera", tag |-> tag, camera |-> params]
Node(id, kind, tag) == [id |-> id, kind |-> kind, tag |-> tag, camera |-> NoParams]
NoNode == Node(0, "none", "none")

\* The three nodes __init__ adds for the one PointLight.
Lights == {Node(1, "light", "point"), Node(2, "light", "point"), Node(3, "light", "point")}

CameraNodes(nodes) == {n \in nodes : n.kind = "camera"}
MeshNodes(nodes) == {n \in nodes : n.kind = "mesh"}

SceneOf == [nodes |-> scene, main |-> main_camera_node]

Range(f) == {f[i] : i \in DOMAIN f}

\* Node objects are told apart by identity: a new node differs from every
\* node the scene or the session still holds.
LiveNodes == scene \cup {cam_node} \cup Range(object_nodes) \cup Range(human_nodes)
FreeIds == (1..MaxNodes) \ {n.id : n \in LiveNodes}
NewId(free) == CHOOSE i \in free : \A j \in free : i <= j

\* scene.add(obj): the new node joins the graph; the first camera node added
\* to a scene without one becomes the main camera.
SceneAdd(S, n) ==
    [nodes |-> S.nodes \cup {n},
     main  |-> IF n.kind = "camera" /\ S.main = NoNode THEN n ELSE S.main]

\* scene.remove_node(n) raises unless n is a node of the graph (None is not).
CanRemove(S, n) == n \in S.nodes

\* scene.remove_node(n): when the main camera is removed, any camera node
\* still in the scene becomes the main camera, none if there is none.
SceneRemove(S, n) ==
    LET rest == S.nodes \ {n}
        mains == IF S.main # n THEN {S.main}
                 ELSE IF CameraNodes(rest) = {} THEN {NoNode}
                 ELSE CameraNodes(rest)
    IN  {[nodes |-> rest, main |-> m] : m \in mains}

\* for n in nodes: self.scene.remove_node(n), for mesh nodes; stops at the
\* first handle the scene does not hold.
RECURSIVE RemoveEach(_, _)
RemoveEach(S, handles) ==
    IF handles = <<>> THEN [S |-> S, ok |-> TRUE]
    ELSE IF ~CanRemove(S, Head(handles)) THEN [S |-> S, ok |-> FALSE]
    ELSE RemoveEach([nodes |-> S.nodes \ {Head(handles)}, main |-> S.main], Tail(handles))

----------------------------------------------------------------------------
(* The offscreen rasterizer: self.renderer.render(self.scene, flags).       *)

RenderFlags(wf) == IF wf THEN {"RGBA", "ALL_WIREFRAME"} ELSE {"RGBA"}

\* The scene is cleared to bg_color = [0, 0, 0, 0]: with no mesh node in it
\* every pixel of the raster is the clear pixel.
Rasters(S, res) ==
    IF MeshNodes(S.nodes) = {}
    THEN {FullImage(res[2], res[1], ClearPixel)}
    ELSE {FullImage(res[2], res[1], HiddenPixel),
          Striped(res[2], res[1], SemiPixel, ClearPixel)}

\* What one render call can do: refuse a scene without a camera, raise, or
\* return a raster of the viewport's shape.
RenderOutcomes(S, res) ==
    IF S.main = NoNode
    THEN {[err |-> "NoCameraError", rgb |-> NoImage]}
    ELSE {[err |-> "RasterError", rgb |-> NoImage]}
            \cup {[err |-> "ok", rgb |-> r] : r \in Rasters(S, res)}

\* The render + composite statements, given the rasterizer's outcome.
Shoot(S, img, out) ==
    IF out.err # "ok"
    THEN [result |-> out.err, image |-> NoImage, rendered |-> {}, renderCam |-> NoNode,
          raster |-> NoImage, bg |-> NoImage, flags |-> RenderFlags(wireframe)]
    ELSE IF ~Broadcastable(out.rgb, img)
    THEN [result |-> "DimensionMismatch", image |-> NoImage, rendered |-> S.nodes,
          renderCam |-> S.main, raster |-> out.rgb, bg |-> img,
          flags |-> RenderFlags(wireframe)]
    ELSE [result |-> "ok", image |-> Composite(out.rgb, img), rendered |-> S.nodes,
          renderCam |-> S.main, raster |-> out.rgb, bg |-> img,
          flags |-> RenderFlags(wireframe)]

\* A point in homogeneous coordinates, each the quotient num[i] / den; an
\* operation that returns no point leaves NoPoint.
NoPoint == [kind |-> "none", num |-> <<>>, den |-> 0]

\* An operation that never reaches the rasterizer.
NoShot ==
    [result |-> "ok", image |-> NoImage, rendered |-> {}, renderCam |-> NoNode,
     raster |-> NoImage, bg |-> NoImage, flags |-> {}]

----------------------------------------------------------------------------
(* Matrices are tuples of rows.  Entries are exact: the integers the callers *)
(* pass stand for the floats numpy holds, and a quotient is kept as a        *)
(* numerator over a denominator.                                            *)

RECURSIVE Sum(_)
Sum(s) == IF s = <<>> THEN 0 ELSE Head(s) + Sum(Tail(s))

\* np.eye(4)
Eye4 == [i \in 1..4 |-> [j \in 1..4 |-> IF i = j THEN 1 ELSE 0]]

\* Sequence s without its k-th element.
Without(s, k) == SubSeq(s, 1, k - 1) \o SubSeq(s, k + 1, Len(s))

Sign(k) == IF k % 2 = 0 THEN 1 ELSE -1

\* The determinant of the rows and columns of M listed in rows and cols,
\* expanded along the first of the rows.
RECURSIVE SubDet(_, _, _)
SubDet(M, rows, cols) ==
    IF rows = <<>> THEN 1
    ELSE Sum([k \in 1..Len(cols) |->
                IF M[rows[1]][cols[k]] = 0 THEN 0
                ELSE Sign(1 + k) * M[rows[1]][cols[k]]
                        * SubDet(M, Tail(rows), Without(cols, k))])

Indices(M) == [k \in 1..Len(M) |-> k]

Det(M) == SubDet(M, Indices(M), Indices(M))

\* The adjugate: np.linalg.inv(M) is Adjugate(M) / Det(M) when Det(M) # 0,
\* and raises LinAlgError("Singular matrix") when M is exactly singular.
Adjugate(M) ==
    [i \in 1..Len(M) |->
        [j \in 1..Len(M) |->
            Sign(i + j) * SubDet(M, Without(Indices(M), j), Without(Indices(M), i))]]

\* M @ v
MatVec(M, v) == [i \in 1..Len(M) |-> Sum([j \in 1..Len(v) |-> M[i][j] * v[j]])]

----------------------------------------------------------------------------
(* WeakPerspectiveCamera *)

WeakPerspectiveCamera(scale, translation, znear, zfar) ==
    [scale |-> scale, translation |-> translation, znear |-> znear, zfar |-> zfar]

\* A projection matrix with P[1][2] set: not the camera's.
GetProjectionMatrix_Skewed(self, width, height) ==
    [Eye4 EXCEPT ![1][1] = self.scale[1],
                 ![2][2] = self.scale[2],
                 ![1][2] = self.translation[1] * self.scale[1],
                 ![2][4] = -(self.translation[2] * self.scale[2]),
                 ![3][3] = -1]

\* A projection matrix whose diagonal is left as np.eye made it.
GetProjectionMatrix_ScaleOmitted(self, width, height) ==
    [Eye4 EXCEPT ![1][4] = self.translation[1] * self.scale[1],
                 ![2][4] = -(self.translation[2] * self.scale[2]),
                 ![3][3] = -1]

\* get_projection_matrix; rows and columns count from 1 here.
GetProjectionMatrix(self, width, height) ==
    [Eye4 EXCEPT ![1][1] = self.scale[1],
                 ![2][2] = self.scale[2],
                 ![1][4] = self.translation[1] * self.scale[1],
                 ![2][4] = -(self.translation[2] * self.scale[2]),
                 ![3][3] = -1]

\* The camera push_cam builds from cam = <<sx, sy, tx, ty>>; znear is
\* pyrender's default 0.05 and zfar 1000, both in hundredths.
WeakCameraOf(cam) ==
    WeakPerspectiveCamera(<<cam[1], cam[2]>>, <<cam[3], cam[4]>>, 5, 100000)

----------------------------------------------------------------------------
(* trimesh.transformations, as render_obj, push_obj, render and push_human  *)
(* call it.  An entry is an integer or NaN; sums, products and quotients    *)
(* with a NaN operand are NaN, and so is 0 / 0.  Angles are multiples of 90 *)
(* degrees and their sines and cosines are taken exactly.                   *)

\* The float that is not a number.
NaN == -1000000

Add(a, b) == IF a = NaN \/ b = NaN THEN NaN ELSE a + b
Mul(a, b) == IF a = NaN \/ b = NaN THEN NaN ELSE a * b

\* a / n for the quotients unit_vector takes: exact, or 0 / 0.
Quot(a, n) == IF a = NaN \/ n = NaN \/ n = 0 THEN NaN ELSE a \div n

RECURSIVE SumOf(_)
SumOf(s) == IF s = <<>> THEN 0 ELSE Add(Head(s), SumOf(Tail(s)))

Dot(u, v) == SumOf([k \in 1..Len(u) |-> Mul(u[k], v[k])])

\* math.sqrt of a perfect square.
Sqrt(n) == CHOOSE r \in 0..n : r * r = n

\* unit_vector(data): data /= math.sqrt(numpy.dot(data, data))
UnitVector(data) == [k \in 1..Len(data) |-> Quot(data[k], Sqrt(Dot(data, data)))]

Cos(degrees) == CASE degrees % 360 = 0 -> 1
                  [] degrees % 360 = 90 -> 0
                  [] degrees % 360 = 180 -> -1
                  [] degrees % 360 = 270 -> 0

Sin(degrees) == CASE degrees % 360 = 0 -> 0
                  [] degrees % 360 = 90 -> 1
                  [] degrees % 360 = 180 -> 0
                  [] degrees % 360 = 270 -> -1

\* identity_matrix()
IdentityMatrix == Eye4

\* rotation_matrix(math.radians(degrees), direction): the 3 x 3 block is
\* diag(cosa) + outer(d, d) * (1 - cosa) + the cross-product matrix of
\* d * sina, with d = unit_vector(direction).
RotationMatrix(degrees, direction) ==
    LET sina == Sin(degrees)
        cosa == Cos(degrees)
        d == UnitVector(direction)
        ds == [k \in 1..3 |-> Mul(d[k], sina)]
        skew == <<<<0, Mul(-1, ds[3]), ds[2]>>,
                  <<ds[3], 0, Mul(-1, ds[1])>>,
                  <<Mul(-1, ds[2]), ds[1], 0>>>>
    IN  [i \in 1..4 |-> [j \in 1..4 |->
            IF i = 4 \/ j = 4 THEN Eye4[i][j]
            ELSE Add(Add(IF i = j THEN cosa ELSE 0,
                         Mul(Mul(d[i], d[j]), 1 - cosa)),
                     skew[i][j])]]

\* scale_matrix(factor, origin, direction) with origin[:3] = [0, 0, 0]:
\* identity - (1 - factor) * outer(d, d), d = unit_vector(direction).
ScaleMatrix(factor, direction) ==
    LET d == UnitVector(direction)
    IN  [i \in 1..4 |-> [j \in 1..4 |->
            IF i = 4 \/ j = 4 THEN Eye4[i][j]
            ELSE Add(Eye4[i][j], Mul(factor - 1, Mul(d[i], d[j])))]]

\* translation_matrix(direction)
TranslationMatrix(direction) ==
    [i \in 1..4 |-> [j \in 1..4 |->
        IF j = 4 /\ i < 4 THEN direction[i] ELSE Eye4[i][j]]]

\* mesh.apply_transform(matrix): every vertex v becomes the first three
\* coordinates of matrix @ (v, 1).
ApplyTransform(vertices, matrix) ==
    [k \in 1..Len(vertices) |->
        [i \in 1..3 |-> Dot(matrix[i], vertices[k] \o <<1>>)]]

RECURSIVE ApplyEach(_, _)
ApplyEach(vertices, matrices) ==
    IF matrices = <<>> THEN vertices
    ELSE ApplyEach(ApplyTransform(vertices, Head(matrices)), Tail(matrices))

\* R as render_obj builds it: line 155.
RenderObjRotation(angle, axis) == RotationMatrix(angle, axis)

\* R as push_obj builds it: lines 279-283.
PushObjRotation(angle, axis) ==
    IF angle = 0 THEN IdentityMatrix ELSE RotationMatrix(angle, axis)

\* The matrices an object call applies, in the order it applies them, and
\* the mesh they leave.  a holds translation, angle, axis, scale and the
\* loaded vertices.
ObjBuild(a, R) ==
    LET Sx == ScaleMatrix(a.scale[1], <<1, 0, 0>>)
        Sy == ScaleMatrix(a.scale[2], <<0, 1, 0>>)
        Sz == ScaleMatrix(a.scale[3], <<0, 0, 1>>)
        T == TranslationMatrix(a.translation)
        Rx == RotationMatrix(180, <<1, 0, 0>>)
        applied == <<Sx, Sy, Sz, R, T, Rx>>
    IN  [applied |-> applied, mesh |-> ApplyEach(a.vertices, applied)]

\* render_obj, lines 149-165.
RenderObjBuild(a) == ObjBuild(a, RenderObjRotation(a.angle, a.axis))

\* push_obj, lines 274-293.
PushObjBuild(a) == ObjBuild(a, PushObjRotation(a.angle, a.axis))

\* `if angle and axis`: None, 0 and an empty axis are false.
ExtraRotation(a) == a.angle # 0 /\ a.axis # <<>>

\* render, lines 90-100: Rx, then R when an angle and an axis are given.
RenderBuild(a) ==
    LET Rx == RotationMatrix(180, <<1, 0, 0>>)
        applied == IF ExtraRotation(a)
                   THEN <<Rx, RotationMatrix(a.angle, a.axis)>>
                   ELSE <<Rx>>
    IN  [applied |-> applied, mesh |-> ApplyEach(a.vertices, applied)]

\* push_human, lines 248-252.
PushHumanBuild(a) ==
    LET Rx == RotationMatrix(180, <<1, 0, 0>>)
    IN  [applied |-> <<Rx>>, mesh |-> ApplyEach(a.vertices, <<Rx>>)]

\* What a call hands the rasterizer besides the lights: the mesh it built
\* and the projection of the camera it made from cam = <<sx, sy, tx, ty>>.
View(build, cam, res) ==
    [mesh |-> build.mesh,
     projection |-> GetProjectionMatrix(WeakCameraOf(cam), res[1], res[2])]

----------------------------------------------------------------------------
(* What the caller of an operation observes. *)

\* calc in a run of the session: no function is applied outside it.
NoCalc == [fn |-> "none"]

Observed(op, res, shot, omitted, pt) ==
    /\ lastOp' = op
    /\ result' = res
    /\ image' = shot.image
    /\ rendered' = shot.rendered
    /\ renderCam' = shot.renderCam
    /\ flags' = shot.flags
    /\ raster' = shot.raster
    /\ bg' = shot.bg
    /\ imgOmitted' = omitted
    /\ allOk' = (allOk /\ res = "ok")
    /\ point' = pt
    /\ UNCHANGED calc

Outcome(op, res, shot, omitted) == Observed(op, res, shot, omitted, NoPoint)

SetScene(S) ==
    /\ scene' = S.nodes
    /\ main_camera_node' = S.main

----------------------------------------------------------------------------
(* Renderer.__init__ *)

SessionInit ==
    /\ resolution \in Resolutions
    /\ wireframe \in {FALSE}      \* the default
    /\ \E renderOnWhite \in BOOLEAN :
          whiteBackground = IF renderOnWhite
                            THEN FullImage(resolution[2], resolution[1], WhitePixel)
                            ELSE NoImage
    /\ scene = Lights
    /\ main_camera_node = NoNode
    /\ cam_node = NoNode
    /\ object_nodes = <<>>
    /\ human_nodes = <<>>
    /\ lastOp = "init"
    /\ result = "ok"
    /\ image = NoImage
    /\ rendered = {}
    /\ renderCam = NoNode
    /\ flags = {}
    /\ raster = NoImage
    /\ bg = NoImage
    /\ imgOmitted = FALSE
    /\ camPushes = 0
    /\ pushed = {}
    /\ regular = TRUE
    /\ allOk = TRUE
    /\ point = NoPoint

Init ==
    /\ SessionInit
    /\ calc = NoCalc

----------------------------------------------------------------------------
(* Single-shot operations: render and render_obj. *)

\* The history has left the cycles of one camera push, mesh pushes and a pop:
\* the cycle's pushes are counted no further.
Irregular ==
    /\ regular' = FALSE
    /\ camPushes' = 0
    /\ pushed' = {}

\* A cleanup that removes the mesh node and leaves the camera node.
SingleShotCleanup_KeepsCamera(S, mesh_node, cam) == SceneRemove(S, mesh_node)

\* A cleanup that removes the camera node and leaves the mesh node.
SingleShotCleanup_KeepsMesh(S, mesh_node, cam) == SceneRemove(S, cam)

\* self.scene.remove_node(mesh_node); self.scene.remove_node(cam_node)
SingleShotCleanup(S, mesh_node, cam) ==
    UNION {SceneRemove(S1, cam) : S1 \in SceneRemove(S, mesh_node)}

\* A failure that puts the scene back as it was before the call.
SingleShotFailure_RollsBack(S, S2) == S

\* The scene a single-shot call leaves when render or the compositing raises:
\* no handler surrounds them, and the exception leaves the function before
\* the two remove_node calls.  S is the scene before the call, S2 the scene
\* with the mesh node and the camera node added.
SingleShotFailure(S, S2) == S2

\* From scene.add(mesh, 'mesh') to the return: lines 116-136 and 183-206.
SingleShot(op, tag) ==
    /\ Cardinality(FreeIds) >= 2
    /\ \E img \in Backgrounds(resolution), params \in ShotCamInputs :
        LET mesh_node == Node(NewId(FreeIds), "mesh", tag)
            cam == CamNode(NewId(FreeIds \ {mesh_node.id}), "weak", params)
            S2 == SceneAdd(SceneAdd(SceneOf, mesh_node), cam)
        IN  \E out \in RenderOutcomes(S2, resolution) :
                LET shot == Shoot(S2, img, out)
                IN  /\ Outcome(op, shot.result, shot, FALSE)
                    /\ IF shot.result = "ok"
                       THEN \E S4 \in SingleShotCleanup(S2, mesh_node, cam) : SetScene(S4)
                       ELSE SetScene(SingleShotFailure(SceneOf, S2))
    /\ Irregular
    /\ UNCHANGED <<session, tracking>>

\* An operation that fails while loading its mesh file, before touching the session.
LoadFails(op) ==
    /\ Outcome(op, "InvalidMeshError", NoShot, FALSE)
    /\ UNCHANGED <<session, tracking, scene, main_camera_node>>

Render == SingleShot("render", "mesh")

RenderObj ==
    \/ SingleShot("render_obj", "mesh")
    \/ LoadFails("render_obj") /\ Irregular

----------------------------------------------------------------------------
(* Multi-push operations. *)

\* self.cam_node = self.scene.add(camera, pose=self.camera_pose)
PushCamera(op, tag, params) ==
    /\ FreeIds # {}
    /\ LET cam == CamNode(NewId(FreeIds), tag, params)
       IN  /\ SetScene(SceneAdd(SceneOf, cam))
           /\ cam_node' = cam
    /\ IF regular /\ camPushes = 0
       THEN camPushes' = 1 /\ UNCHANGED <<regular, pushed>>
       ELSE Irregular
    /\ Outcome(op, "ok", NoShot, FALSE)
    /\ UNCHANGED <<session, object_nodes, human_nodes>>

PushCam == \E cam \in CamInputs : PushCamera("push_cam", "weak", cam)

PushDefaultCam == PushCamera("push_default_cam", "perspective", NoParams)

PushHuman ==
    /\ FreeIds # {}
    /\ LET mesh_node == Node(NewId(FreeIds), "mesh", "unnamed")
       IN  /\ SetScene(SceneAdd(SceneOf, mesh_node))
           /\ human_nodes' = Append(human_nodes, mesh_node)
           /\ pushed' = IF regular THEN pushed \cup {mesh_node} ELSE {}
    /\ Outcome("push_human", "ok", NoShot, FALSE)
    /\ UNCHANGED <<session, cam_node, object_nodes, camPushes, regular>>

PushObj ==
    \/ /\ FreeIds # {}
       /\ LET mesh_node == Node(NewId(FreeIds), "mesh", "unnamed")
          IN  /\ SetScene(SceneAdd(SceneOf, mesh_node))
              /\ object_nodes' = Append(object_nodes, mesh_node)
              /\ pushed' = IF regular THEN pushed \cup {mesh_node} ELSE {}
          /\ Outcome("push_obj", "ok", NoShot, FALSE)
       /\ UNCHANGED <<session, cam_node, human_nodes, camPushes, regular>>
    \/ LoadFails("push_obj") /\ UNCHANGED <<regular, camPushes, pushed>>

\* A "Remove nodes" block without the loop over human_nodes.
PopCleanup_KeepsHumans(S, cam, objs, humans) ==
    IF ~CanRemove(S, cam)
    THEN {[ok |-> FALSE, S |-> S, cam_node |-> cam, object_nodes |-> objs,
           human_nodes |-> humans]}
    ELSE {[ok |-> TRUE, S |-> RemoveEach(S1, objs).S, cam_node |-> NoNode,
           object_nodes |-> <<>>, human_nodes |-> <<>>]
          : S1 \in SceneRemove(S, cam)}

\* The "Remove nodes" block of pop_and_render, lines 324-333: the outcomes
\* [ok, S, cam_node, object_nodes, human_nodes] it can leave.
PopCleanup(S, cam, objs, humans) ==
    IF ~CanRemove(S, cam)
    THEN {[ok |-> FALSE, S |-> S, cam_node |-> cam, object_nodes |-> objs,
           human_nodes |-> humans]}
    ELSE {LET o == RemoveEach(S1, objs)
              h == RemoveEach(o.S, humans)
          IN  IF ~o.ok
              THEN [ok |-> FALSE, S |-> o.S, cam_node |-> cam, object_nodes |-> objs,
                    human_nodes |-> humans]
              ELSE IF ~h.ok
              THEN [ok |-> FALSE, S |-> h.S, cam_node |-> cam, object_nodes |-> objs,
                    human_nodes |-> humans]
              ELSE [ok |-> TRUE, S |-> h.S, cam_node |-> NoNode, object_nodes |-> <<>>,
                    human_nodes |-> <<>>]
          : S1 \in SceneRemove(S, cam)}

\* The background pop_and_render composites against (lines 314-315); NoImage
\* as the argument is img = None.
PopBackground(arg) == IF arg = NoImage THEN whiteBackground ELSE arg

PopAndRender ==
    /\ \E arg \in Backgrounds(resolution) \cup {NoImage} :
        IF arg = NoImage /\ whiteBackground = NoImage
        THEN \* self.whiteBackground does not exist
             /\ Outcome("pop_and_render", "AttributeError", NoShot, TRUE)
             /\ UNCHANGED <<scene, main_camera_node, tracking>>
        ELSE \E out \in RenderOutcomes(SceneOf, resolution) :
                LET shot == Shoot(SceneOf, PopBackground(arg), out)
                IN  IF shot.result # "ok"
                    THEN /\ Outcome("pop_and_render", shot.result, shot, arg = NoImage)
                         /\ UNCHANGED <<scene, main_camera_node, tracking>>
                    ELSE \E c \in PopCleanup(SceneOf, cam_node, object_nodes, human_nodes) :
                            /\ SetScene(c.S)
                            /\ cam_node' = c.cam_node
                            /\ object_nodes' = c.object_nodes
                            /\ human_nodes' = c.human_nodes
                            /\ IF c.ok
                               THEN Outcome("pop_and_render", "ok", shot, arg = NoImage)
                               ELSE Outcome("pop_and_render", "RemoveNodeError",
                                            [shot EXCEPT !.image = NoImage], arg = NoImage)
    /\ camPushes' = 0
    /\ pushed' = {}
    /\ regular' = (regular /\ camPushes = 1)
    /\ UNCHANGED session

----------------------------------------------------------------------------
(* screenspace_to_worldspace *)

\* The scene's main camera instead of the session's.
CurrentCamera_SceneMain == main_camera_node

\* The camera whose projection the function asks for.
CurrentCamera == cam_node

\* ndc_coords for pixel <<x, y>>, as numerators over the denominator
\* res[1] * res[2].
NdcCoords(res, xy) ==
    <<(2 * xy[1] - res[1]) * res[2], (2 * xy[2] - res[2]) * res[1], 0, res[1] * res[2]>>

\* What the call returns or raises for camera node c.  pyrender's
\* PerspectiveCamera(yfov = pi / 3) has an invertible projection matrix of
\* irrational entries: its world point is kept as the ndc point it is the
\* pre-image of.
Unproject(c, res, xy) ==
    IF c = NoNode
    THEN [result |-> "NoCameraError", point |-> NoPoint]
    ELSE IF c.tag = "perspective"
    THEN [result |-> "ok",
          point |-> [kind |-> "perspective", num |-> NdcCoords(res, xy),
                     den |-> res[1] * res[2]]]
    ELSE LET projMatrix == GetProjectionMatrix(WeakCameraOf(c.camera), res[1], res[2])
             det == Det(projMatrix)
         IN  IF det = 0
             THEN [result |-> "SingularMatrixError", point |-> NoPoint]
             ELSE [result |-> "ok",
                   point |-> [kind |-> "world",
                              num |-> MatVec(Adjugate(projMatrix), NdcCoords(res, xy)),
                              den |-> det * res[1] * res[2]]]

ScreenspaceToWorldspace ==
    \E xy \in ScreenCoords :
        LET r == Unproject(CurrentCamera, resolution, xy)
        IN  /\ Observed("screenspace_to_worldspace", r.result, NoShot, FALSE, r.point)
            /\ UNCHANGED <<session, tracking, scene, main_camera_node,
                           camPushes, pushed, regular>>

----------------------------------------------------------------------------

Next ==
    \/ Render
    \/ RenderObj
    \/ PushCam
    \/ PushDefaultCam
    \/ PushHuman
    \/ PushObj
    \/ PopAndRender
    \/ ScreenspaceToWorldspace

Spec == Init /\ [][Next]_vars

\* Types of the state.
TypeOK ==
    /\ resolution \in Resolutions
    /\ wireframe \in BOOLEAN
    /\ \A n \in scene : n.id \in 1..MaxNodes
    /\ \A m, n \in scene : m.id = n.id => m = n
    /\ main_camera_node \in CameraNodes(scene) \cup {NoNode}
    /\ (main_camera_node = NoNode) = (CameraNodes(scene) = {})
    /\ result \in {"ok", "AttributeError", "NoCameraError", "RasterError",
                   "DimensionMismatch", "RemoveNodeError", "InvalidMeshError",
                   "SingularMatrixError"}
    /\ (point # NoPoint) => (lastOp = "screenspace_to_worldspace" /\ result = "ok")
    /\ calc = NoCalc

----------------------------------------------------------------------------
(* The functions of the module applied to arguments: the projection matrix  *)
(* of a WeakPerspectiveCamera, and the mesh and camera each rendering call  *)
(* builds before it touches the scene.  The session stays as __init__ left  *)
(* it.                                                                      *)

CameraArgs ==
    {[of |-> "camera", scale |-> <<sx, sy>>, translation |-> <<tx, ty>>,
      znear |-> zn, zfar |-> zf, viewport |-> vp] :
        sx \in Scales, sy \in Scales, tx \in Translations, ty \in Translations,
        zn \in ZNears, zf \in ZFars, vp \in Viewports}

ObjArgs ==
    {[of |-> "object", cam |-> c, translation |-> t, angle |-> an, axis |-> ax,
      scale |-> sc, vertices |-> v] :
        c \in ShotCamInputs, t \in ObjTranslations, an \in Angles, ax \in Axes,
        sc \in ObjScales, v \in MeshInputs}

HumanArgs ==
    {[of |-> "human", cam |-> c, angle |-> an, axis |-> ax, vertices |-> v] :
        c \in ShotCamInputs, an \in HumanAngles, ax \in HumanAxes, v \in MeshInputs}

InitMath ==
    /\ SessionInit
    /\ \E a \in CameraArgs \cup ObjArgs \cup HumanArgs :
          calc = [fn |-> "args", args |-> a, out |-> <<>>]

\* calc after fn was applied to the arguments and returned out.
Applied(fn, of, out) ==
    /\ calc.fn = "args"
    /\ calc.args.of = of
    /\ calc' = [fn |-> fn, args |-> calc.args, out |-> out]
    /\ UNCHANGED <<session, tracking, scene, main_camera_node, lastOp, result,
                   image, rendered, renderCam, flags, raster, bg, imgOmitted,
                   camPushes, pushed, regular, allOk, point>>

GetProjectionMatrixCall ==
    Applied("get_projection_matrix", "camera",
            GetProjectionMatrix(
                WeakPerspectiveCamera(calc.args.scale, calc.args.translation,
                                      calc.args.znear, calc.args.zfar),
                calc.args.viewport[1], calc.args.viewport[2]))

\* What a call builds and what it hands the rasterizer.
Built(build) ==
    [applied |-> build.applied, mesh |-> build.mesh,
     view |-> View(build, calc.args.cam, resolution)]

RenderObjCall == Applied("render_obj", "object", Built(RenderObjBuild(calc.args)))

\* push_cam(cam); push_obj(...); pop_and_render(img)
PushObjCall == Applied("push_obj", "object", Built(PushObjBuild(calc.args)))

RenderCall == Applied("render", "human", Built(RenderBuild(calc.args)))

\* push_cam(cam); push_human(verts); pop_and_render(img)
PushHumanCall == Applied("push_human", "human", Built(PushHumanBuild(calc.args)))

NextMath ==
    \/ GetProjectionMatrixCall
    \/ RenderObjCall
    \/ PushObjCall
    \/ RenderCall
    \/ PushHumanCall

SpecMath == InitMath /\ [][NextMath]_vars

----------------------------------------------------------------------------
(* Properties of the session. *)

\* The state __init__ leaves: only the three lights in the scene, no camera,
\* nothing tracked.
FreshSession ==
    /\ scene = Lights
    /\ main_camera_node = NoNode
    /\ cam_node = NoNode
    /\ human_nodes = <<>>
    /\ object_nodes = <<>>

PopCalled == lastOp = "pop_and_render"
SingleShotCalled == lastOp \in {"render", "render_obj"}

\* The nodes the session tracks.
Tracked == ({cam_node} \ {NoNode}) \cup Range(object_nodes) \cup Range(human_nodes)

\* C1: a successful pop_and_render that follows one camera push and any
\* number of push_human / push_obj calls on a fresh session leaves the session
\* as __init__ left it: both lists empty, no camera, only the three lights in
\* the scene.
C1_PopRestoresFresh ==
    (PopCalled /\ result = "ok" /\ regular /\ allOk) => FreshSession

\* C1 happens: a pop that rendered the lights, one camera and two pushed
\* meshes has succeeded.
C1_Witness ==
    /\ PopCalled /\ result = "ok" /\ regular /\ allOk
    /\ Cardinality(MeshNodes(rendered)) = 2
    /\ Cardinality(CameraNodes(rendered)) = 1

\* C2 as stated: pop_and_render on a session with no camera pushed fails with
\* NoCameraError and returns no image.
C2_NoCameraError ==
    [][(lastOp' = "pop_and_render" /\ cam_node = NoNode)
            => (result' = "NoCameraError" /\ image' = NoImage)]_vars

\* C3 as stated: the scene graph never holds more than one camera node.
C3_AtMostOneCamera == Cardinality(CameraNodes(scene)) <= 1

\* C4: a successful render or render_obj leaves the scene's node set, its
\* main camera and the session's cam_node, human_nodes and object_nodes as
\* they were before the call.
C4_SingleShotRestores ==
    [][(lastOp' \in {"render", "render_obj"} /\ result' = "ok")
            => /\ scene' = scene
               /\ main_camera_node' = main_camera_node
               /\ cam_node' = cam_node
               /\ human_nodes' = human_nodes
               /\ object_nodes' = object_nodes]_vars

\* C4 happens: a single-shot call on an idle session has rendered its mesh
\* and camera and returned an image, and the session is idle again.
C4_Witness ==
    /\ SingleShotCalled /\ result = "ok" /\ image # NoImage
    /\ Cardinality(MeshNodes(rendered)) = 1
    /\ Cardinality(CameraNodes(rendered)) = 1
    /\ FreshSession

\* C5 as stated: in a sequence of push/pop cycles (one camera push per pop, no
\* single-shot call), the rasterization pass of a pop_and_render sees the
\* whole scene before any removal, and that is exactly the three lights, the
\* current camera and the meshes pushed since the previous pop_and_render.
C5_PassSeesThisCycleOnly ==
    [][(lastOp' = "pop_and_render" /\ rendered' # {} /\ regular /\ camPushes = 1)
            => /\ rendered' = scene
               /\ rendered' = Lights \cup {cam_node} \cup pushed]_vars

\* C6 as stated: when pop_and_render fails in the rasterizer or in the
\* compositing, no node the session pushed is left in the scene graph.
C6_NoOrphansAfterFailure ==
    (PopCalled /\ result \in {"RasterError", "DimensionMismatch"})
        => Tracked \cap scene = {}

\* The raster pixel and the background pixel that output pixel (i, j) is
\* made from.
RasterAt(i, j) == raster[Idx(i, Rows(raster))][Idx(j, Cols(raster))]
BgAt(i, j) == bg[Idx(i, Rows(bg))][Idx(j, Cols(bg))]

\* C7: in render, render_obj and pop_and_render alike, every pixel of a
\* returned image is the raster's RGB where the raster's alpha is above 0 and
\* the background's RGB where it is 0, never a mix.
C7_HardThreshold ==
    ((SingleShotCalled \/ PopCalled) /\ result = "ok")
        => /\ image # NoImage
           /\ \A i \in 1..Rows(image) : \A j \in 1..Cols(image) :
                image[i][j] = IF RasterAt(i, j)[4] > 0
                              THEN <<RasterAt(i, j)[1], RasterAt(i, j)[2], RasterAt(i, j)[3]>>
                              ELSE BgAt(i, j)

\* C7 happens: pop_and_render returned an image with a pixel of alpha 128,
\* whose colour is the raster's and not the background's, and a pixel of
\* alpha 0.
C7_Witness ==
    /\ PopCalled /\ result = "ok"
    /\ \E i \in 1..Rows(image) : \E j \in 1..Cols(image) :
          /\ RasterAt(i, j) = SemiPixel
          /\ BgAt(i, j) = GreyPixel
          /\ image[i][j] = <<200, 100, 50>>
    /\ \E i \in 1..Rows(image) : \E j \in 1..Cols(image) : RasterAt(i, j)[4] = 0

AlphaZeroEverywhere(im) ==
    \A i \in 1..Rows(im) : \A j \in 1..Cols(im) : im[i][j][4] = 0

\* C8: when the raster's alpha is 0 at every pixel, the image returned for a
\* background of the raster's shape is that background.
C8_BackgroundOnly ==
    (image # NoImage /\ AlphaZeroEverywhere(raster) /\ Shape(bg) = Shape(raster))
        => image = bg

\* C8 happens: a call returned an image for a raster of alpha 0 over a
\* nonzero colour and a background of two different pixels.
C8_Witness ==
    /\ image # NoImage
    /\ raster = FullImage(Rows(raster), Cols(raster), HiddenPixel)
    /\ Shape(bg) = Shape(raster)
    /\ \E i \in 1..Rows(bg) : \E j, k \in 1..Cols(bg) : bg[i][j] # bg[i][k]

\* C9 as stated: a background whose shape differs from the raster's makes
\* the call fail with DimensionMismatch and return no image.
C9_MismatchRejected ==
    (bg # NoImage /\ Shape(bg) # RasterShape(resolution))
        => (result = "DimensionMismatch" /\ image = NoImage)

\* C10 as stated: pop_and_render called without a background on a session
\* with a camera pushed composites against a white canvas of the session's
\* resolution, whatever flags the session was constructed with.
C10_WhiteCanvas ==
    [][(lastOp' = "pop_and_render" /\ imgOmitted' /\ cam_node # NoNode
            /\ result' # "RasterError")
            => bg' = FullImage(resolution[2], resolution[1], WhitePixel)]_vars

ScreenspaceCalled == lastOp = "screenspace_to_worldspace"

\* C13: screenspace_to_worldspace called while the session has no camera
\* (cam_node is None) fails with the no-camera error, returns no point, and
\* leaves cam_node, human_nodes, object_nodes and the scene graph as they were.
C13_NoCameraArmed ==
    [][(lastOp' = "screenspace_to_worldspace" /\ cam_node = NoNode)
            => /\ result' = "NoCameraError"
               /\ point' = NoPoint
               /\ UNCHANGED <<cam_node, human_nodes, object_nodes, scene,
                              main_camera_node>>]_vars

\* C13 happens: the call failed for want of a camera on a session that holds
\* a pushed mesh, with a camera node of an earlier call still in the scene.
C13_Witness ==
    /\ ScreenspaceCalled /\ result = "NoCameraError"
    /\ cam_node = NoNode
    /\ human_nodes # <<>>
    /\ CameraNodes(scene) # {}

\* The session's camera is a weak-perspective one with a zero scale.
ZeroScaleArmed ==
    /\ cam_node # NoNode
    /\ cam_node.tag = "weak"
    /\ (cam_node.camera[1] = 0 \/ cam_node.camera[2] = 0)

\* C14: with a camera pushed by push_cam whose scaleX or scaleY is zero,
\* screenspace_to_worldspace fails with the singular-matrix error, returns no
\* point, and leaves the camera and the pushed nodes where they were.
C14_ZeroScaleSingular ==
    [][(lastOp' = "screenspace_to_worldspace" /\ ZeroScaleArmed)
            => /\ result' = "SingularMatrixError"
               /\ point' = NoPoint
               /\ UNCHANGED <<cam_node, human_nodes, object_nodes, scene,
                              main_camera_node>>]_vars

\* C14 happens: the call failed on a camera whose scaleY alone is zero, with
\* a mesh pushed, and the camera is still the session's and in the scene.
C14_Witness ==
    /\ ScreenspaceCalled /\ result = "SingularMatrixError"
    /\ ZeroScaleArmed /\ cam_node.camera[1] # 0
    /\ cam_node \in scene
    /\ human_nodes \o object_nodes # <<>>

\* A step of render or render_obj that failed after inserting its nodes.
SingleShotFailed ==
    /\ lastOp' \in {"render", "render_obj"}
    /\ result' \in {"RasterError", "DimensionMismatch"}

\* C15 as stated: a single-shot call that fails in the rasterizer or in the
\* compositing leaves the scene's node set as it was before the call.
C15_FailureAtomic ==
    [][SingleShotFailed => scene' = scene]_vars

\* C15, amended: a single-shot call that fails in the rasterizer or in the
\* compositing leaves in the scene exactly the nodes it held before the call
\* plus the mesh node and the camera node the call inserted; cam_node,
\* human_nodes and object_nodes are as before.
C15_FailureLeavesInserted ==
    [][SingleShotFailed
            => /\ scene \subseteq scene'
               /\ Cardinality(MeshNodes(scene' \ scene)) = 1
               /\ Cardinality(CameraNodes(scene' \ scene)) = 1
               /\ Cardinality(scene' \ scene) = 2
               /\ UNCHANGED <<cam_node, human_nodes, object_nodes>>]_vars

\* C15 happens: a single-shot call on a fresh session failed on a background
\* of another shape, and its mesh node and camera node are in the scene.
C15_Witness ==
    /\ SingleShotCalled /\ result = "DimensionMismatch"
    /\ camPushes = 0 /\ cam_node = NoNode /\ human_nodes \o object_nodes = <<>>
    /\ Cardinality(MeshNodes(scene)) = 1
    /\ Cardinality(CameraNodes(scene)) = 1

\* C17: after any sequence of successful operations the nodes of the scene
\* that are not cameras are the three lights and the handles in human_nodes
\* and object_nodes; no handle is recorded twice or in both lists; and after
\* any sequence of operations the scene's lights are the three of __init__.
C17_LightsAndHandles ==
    /\ {n \in scene : n.kind = "light"} = Lights
    /\ allOk =>
        /\ scene \ CameraNodes(scene)
              = Lights \cup Range(human_nodes) \cup Range(object_nodes)
        /\ Cardinality(Range(human_nodes)) = Len(human_nodes)
        /\ Cardinality(Range(object_nodes)) = Len(object_nodes)
        /\ Range(human_nodes) \cap Range(object_nodes) = {}

\* C17 happens: every operation so far succeeded, and the session holds a
\* camera, a human and an object, the last of them pushed by push_obj.
C17_Witness ==
    /\ allOk /\ lastOp = "push_obj"
    /\ cam_node \in scene
    /\ human_nodes # <<>>
    /\ object_nodes # <<>>

----------------------------------------------------------------------------
(* Properties of the functions. *)

\* C11: the matrix get_projection_matrix returns is the 4 x 4 identity except
\* for P[0][0] = scaleX, P[1][1] = scaleY, P[0][3] = transX * scaleX,
\* P[1][3] = -transY * scaleY and P[2][2] = -1 (rows and columns counted from
\* 1 below), whatever znear, zfar, width and height are.
C11_WeakProjection ==
    calc.fn = "get_projection_matrix"
        => LET a == calc.args
               P == calc.out
           IN  \A i \in 1..4 : \A j \in 1..4 :
                 P[i][j] = CASE <<i, j>> = <<1, 1>> -> a.scale[1]
                             [] <<i, j>> = <<2, 2>> -> a.scale[2]
                             [] <<i, j>> = <<1, 4>> -> a.translation[1] * a.scale[1]
                             [] <<i, j>> = <<2, 4>> -> -(a.translation[2] * a.scale[2])
                             [] <<i, j>> = <<3, 3>> -> -1
                             [] OTHER -> IF i = j THEN 1 ELSE 0

\* C11 happens: the matrix was computed for scales 2 and 1, translations -1
\* and 3, and a znear, zfar and viewport other than push_cam's.
C11_Witness ==
    /\ calc.fn = "get_projection_matrix"
    /\ calc.args.scale = <<2, 1>>
    /\ calc.args.translation = <<-1, 3>>
    /\ calc.args.znear = 1 /\ calc.args.zfar = 100
    /\ calc.args.viewport = <<224, 224>>
    /\ calc.out[1][4] = -2 /\ calc.out[2][4] = -3

\* C12 as stated: in render_obj and in push_obj an angle of 0 makes the
\* rotation applied to the mesh exactly the identity, for every axis, the zero
\* vector included.
C12_ZeroAngleIdentity ==
    (calc.fn \in {"render_obj", "push_obj"} /\ calc.args.angle = 0)
        => calc.out.applied[4] = IdentityMatrix

\* C16 as stated: render_obj and push_obj apply Sx, Sy, Sz, R, T, Rx in that
\* order, and from the same arguments build the same mesh.
C16_SameOrderSameMesh ==
    (calc.fn \in {"render_obj", "push_obj"})
        => /\ Len(calc.out.applied) = 6
           /\ calc.out.applied[1] = ScaleMatrix(calc.args.scale[1], <<1, 0, 0>>)
           /\ calc.out.applied[2] = ScaleMatrix(calc.args.scale[2], <<0, 1, 0>>)
           /\ calc.out.applied[3] = ScaleMatrix(calc.args.scale[3], <<0, 0, 1>>)
           /\ calc.out.applied[5] = TranslationMatrix(calc.args.translation)
           /\ calc.out.applied[6] = RotationMatrix(180, <<1, 0, 0>>)
           /\ calc.out.mesh = ApplyEach(calc.args.vertices, calc.out.applied)
           /\ calc.out.mesh = RenderObjBuild(calc.args).mesh
           /\ calc.out.mesh = PushObjBuild(calc.args).mesh

\* C18 as stated: render_obj hands the rasterizer what push_cam, push_obj and
\* pop_and_render hand it for the same arguments, and render without a
\* rotation what push_cam, push_human and pop_and_render hand it.
C18_SingleShotIsPushPop ==
    /\ calc.fn = "render_obj"
          => calc.out.view = View(PushObjBuild(calc.args), calc.args.cam, resolution)
    /\ (calc.fn = "render" /\ ~ExtraRotation(calc.args))
          => calc.out.view = View(PushHumanBuild(calc.args), calc.args.cam, resolution)

====
